---- MODULE Spec2Model ----
(***************************************************************************)
(* Problem Details (RFC 7807) helpers of Pickle-Packs/problems.            *)
(*                                                                         *)
(* The library is a set of 19 constructors over one builder.  JavaScript   *)
(* objects have identity, so the model keeps a heap: a sequence of         *)
(* objects, an object's reference being its index.  An object is a         *)
(* sequence of key/value entries in insertion order (the own enumerable    *)
(* string keys of a JavaScript object: the keys that are array indices     *)
(* first, then the other keys as they were added).  A value is a primitive *)
(* or a                                                                    *)
(* reference; `undefined` is a value of its own.  Message lists (the       *)
(* string arrays of a field-errors map) are atomic values.                 *)
(***************************************************************************)
EXTENDS Integers, Sequences, FiniteSets, TLC

VARIABLES heap, problem, call, pc, mutations, wire, parsed, tasks, kept

vars == <<heap, problem, call, pc, mutations, wire, parsed, tasks, kept>>

(***************************************************************************)
(* Bounds of the caller's inputs.                                          *)
(***************************************************************************)
MaxBagLen == 2
MaxErrLen == 1
MaxMutations == 1

(***************************************************************************)
(* Values and objects.                                                     *)
(***************************************************************************)
Prim(n) == [t |-> "prim", v |-> n]
Ref(id) == [t |-> "ref", v |-> id]
Undefined == [t |-> "undefined", v |-> 0]
Null == [t |-> "null", v |-> 0]
Str(s) == [t |-> "str", v |-> 0, s |-> s]

EmptyObject == <<>>

RECURSIVE IndexOf(_, _)
\* position of key k in object o, 0 when o has no such key
IndexOf(o, k) ==
    IF o = <<>> THEN 0
    ELSE IF o[Len(o)].k = k THEN Len(o)
    ELSE IndexOf(SubSeq(o, 1, Len(o) - 1), k)

Has(o, k) == IndexOf(o, k) # 0
Get(o, k) == IF Has(o, k) THEN o[IndexOf(o, k)].v ELSE Undefined
Keys(o) == {o[i].k : i \in 1..Len(o)}

\* the keys that are array indices (canonical numeric strings); the model has
\* one, so their ascending order among themselves needs no comparison
IndexKeys == {"0"}

\* o[k] = v: an existing key keeps its position, a new array-index key goes
\* with the array-index keys at the front, any other new key goes last
Put(o, k, v) ==
    IF Has(o, k)
    THEN [o EXCEPT ![IndexOf(o, k)] = [k |-> k, v |-> v]]
    ELSE IF k \in IndexKeys
    THEN LET n == Cardinality({i \in 1..Len(o) : o[i].k \in IndexKeys})
         IN  SubSeq(o, 1, n) \o << [k |-> k, v |-> v] >>
                 \o SubSeq(o, n + 1, Len(o))
    ELSE Append(o, [k |-> k, v |-> v])

\* delete o[k]
Delete(o, k) ==
    IF Has(o, k)
    THEN SubSeq(o, 1, IndexOf(o, k) - 1) \o SubSeq(o, IndexOf(o, k) + 1, Len(o))
    ELSE o

RECURSIVE Spread(_, _)
\* { ...target-so-far, ...src }: the entries of src are defined on the target
\* one by one in src's own order
Spread(target, src) ==
    IF src = <<>> THEN target
    ELSE Spread(Put(target, src[1].k, src[1].v), Tail(src))

\* allocation of a new object: the record of the new heap and the reference
Alloc(h, o) == [h |-> Append(h, o), r |-> Ref(Len(h) + 1)]

(***************************************************************************)
(* Maybe, from @pickle-packs/nads/maybe.                                   *)
(***************************************************************************)
none == [tag |-> "none", value |-> Undefined]
some(x) == [tag |-> "some", value |-> x]

(***************************************************************************)
(* Module constants.                                                       *)
(***************************************************************************)
extensionsErrorKey == "errors"

\* 415 and 451 exchanged
statusCodesSwapped ==
    [badRequest |-> 400, conflict |-> 409, forbidden |-> 403, gone |-> 410,
     internalServerError |-> 500, methodNotAllowed |-> 405,
     notAcceptable |-> 406, notFound |-> 404, notImplemented |-> 501,
     paymentRequired |-> 402, preconditionFailed |-> 412,
     preconditionRequired |-> 428, requestTimeout |-> 408,
     serviceUnavailable |-> 503, tooManyRequests |-> 429,
     unauthorized |-> 401, unavailableForLegalReasons |-> 415,
     unprocessableContent |-> 422, unsupportedMediaType |-> 451]

statusCodes ==
    [badRequest |-> 400,
     conflict |-> 409,
     forbidden |-> 403,
     gone |-> 410,
     internalServerError |-> 500,
     methodNotAllowed |-> 405,
     notAcceptable |-> 406,
     notFound |-> 404,
     notImplemented |-> 501,
     paymentRequired |-> 402,
     preconditionFailed |-> 412,
     preconditionRequired |-> 428,
     requestTimeout |-> 408,
     serviceUnavailable |-> 503,
     tooManyRequests |-> 429,
     unauthorized |-> 401,
     unavailableForLegalReasons |-> 451,
     unprocessableContent |-> 422,
     unsupportedMediaType |-> 415]

(***************************************************************************)
(* The helpers.  Each takes the heap and returns the new heap h and the    *)
(* result r.                                                               *)
(***************************************************************************)
\* the caller's mapping is ignored
getExtensionsOrEmptyAlwaysEmpty(h, maybeExtensions) ==
    Alloc(h, EmptyObject)

\* the caller's "errors" property is left out of the copy
getExtensionsOrEmptyDropsErrors(h, maybeExtensions) ==
    IF maybeExtensions.tag = "some"
    THEN Alloc(h, Delete(Spread(EmptyObject, h[maybeExtensions.value.v]),
                         extensionsErrorKey))
    ELSE Alloc(h, EmptyObject)

\* match(maybeExtensions, x => ({ ...x }), {})
getExtensionsOrEmpty(h, maybeExtensions) ==
    IF maybeExtensions.tag = "some"
    THEN Alloc(h, Spread(EmptyObject, h[maybeExtensions.value.v]))
    ELSE Alloc(h, EmptyObject)

\* the default of getExtensionsOrEmpty, {}, instead of undefined
resolveExtensionsEmptyDefault(h, maybeExtensions) ==
    IF maybeExtensions.tag = "some"
    THEN Alloc(h, Spread(EmptyObject, h[maybeExtensions.value.v]))
    ELSE Alloc(h, EmptyObject)

\* an empty mapping counts as absent
resolveExtensionsDropsEmpty(h, maybeExtensions) ==
    IF maybeExtensions.tag = "some" /\ h[maybeExtensions.value.v] # EmptyObject
    THEN Alloc(h, Spread(EmptyObject, h[maybeExtensions.value.v]))
    ELSE [h |-> h, r |-> Undefined]

\* x => x: the caller's mapping itself, not a copy
resolveExtensionsNoCopy(h, maybeExtensions) ==
    IF maybeExtensions.tag = "some"
    THEN [h |-> h, r |-> maybeExtensions.value]
    ELSE [h |-> h, r |-> Undefined]

\* null instead of undefined as the default
resolveExtensionsNull(h, maybeExtensions) ==
    IF maybeExtensions.tag = "some"
    THEN Alloc(h, Spread(EmptyObject, h[maybeExtensions.value.v]))
    ELSE [h |-> h, r |-> Null]

\* x => ({ errors: x.errors, ...x }): an "errors" property in every copy,
\* undefined when x has none
resolveExtensionsErrorsKey(h, maybeExtensions) ==
    IF maybeExtensions.tag = "some"
    THEN Alloc(h, Spread(Put(EmptyObject, extensionsErrorKey,
                             Get(h[maybeExtensions.value.v], extensionsErrorKey)),
                         h[maybeExtensions.value.v]))
    ELSE [h |-> h, r |-> Undefined]

\* a copy two levels deep: the objects the mapping's values refer to are
\* copied as well
resolveExtensionsDeep(h, maybeExtensions) ==
    IF maybeExtensions.tag = "some"
    THEN LET x == h[maybeExtensions.value.v]
             clones == [i \in 1..Len(x) |->
                           IF x[i].v.t = "ref" THEN h[x[i].v.v]
                           ELSE EmptyObject]
             copy == [i \in 1..Len(x) |->
                         IF x[i].v.t = "ref"
                         THEN [k |-> x[i].k, v |-> Ref(Len(h) + i)]
                         ELSE x[i]]
         IN  Alloc(h \o clones, copy)
    ELSE [h |-> h, r |-> Undefined]

\* the copy made for the previous record is retained and returned again
\* for a caller's mapping
resolveExtensionsRetained(h, maybeExtensions) ==
    IF maybeExtensions.tag = "some"
    THEN IF Len(h) > 3 /\ maybeExtensions.value.v <= 3
         THEN [h |-> h, r |-> Ref(Len(h))]
         ELSE Alloc(h, Spread(EmptyObject, h[maybeExtensions.value.v]))
    ELSE [h |-> h, r |-> Undefined]

\* match(maybeExtensions, x => ({ ...x }), undefined)
resolveExtensions(h, maybeExtensions) ==
    IF maybeExtensions.tag = "some"
    THEN Alloc(h, Spread(EmptyObject, h[maybeExtensions.value.v]))
    ELSE [h |-> h, r |-> Undefined]

\* type and instance taken in the order of the wrappers' parameters
buildProblemSwapped(h, status, title, type, instance, detail, maybeExtensions) ==
    LET e == resolveExtensions(h, maybeExtensions)
    IN  [h |-> e.h,
         r |-> [detail |-> detail,
                extensions |-> e.r,
                instance |-> type,
                status |-> status,
                title |-> title,
                type |-> instance]]

\* extensions: the mapping handed in, without resolveExtensions
buildProblemNoCopy(h, status, title, type, instance, detail, maybeExtensions) ==
    [h |-> h,
     r |-> [detail |-> detail,
            extensions |-> IF maybeExtensions.tag = "some"
                           THEN maybeExtensions.value ELSE Undefined,
            instance |-> instance,
            status |-> status,
            title |-> title,
            type |-> type]]

buildProblem(h, status, title, type, instance, detail, maybeExtensions) ==
    LET e == resolveExtensions(h, maybeExtensions)
    IN  [h |-> e.h,
         r |-> [detail |-> detail,
                extensions |-> e.r,
                instance |-> instance,
                status |-> status,
                title |-> title,
                type |-> type]]

(***************************************************************************)
(* The 19 exported constructors.  The four that take a field-errors map    *)
(* build { [extensionsErrorKey]: errors, ...getExtensionsOrEmpty(m) } and  *)
(* hand it to the builder as some(...); `errors` is the reference of the   *)
(* caller's map, stored as it is.                                          *)
(***************************************************************************)
\* { ...x, [extensionsErrorKey]: x.errors ?? errors }: the same values, the
\* "errors" key where the spread left it or last
badRequestSpreadFirst(h, instance, type, detail, errors, maybeExtensions) ==
    LET g == getExtensionsOrEmpty(h, maybeExtensions)
        extensionsWithErrors ==
            Alloc(g.h, IF Has(g.h[g.r.v], extensionsErrorKey)
                       THEN Spread(EmptyObject, g.h[g.r.v])
                       ELSE Put(Spread(EmptyObject, g.h[g.r.v]),
                                extensionsErrorKey, errors))
    IN  buildProblem(extensionsWithErrors.h, statusCodes.badRequest,
                     "Bad Request", type, instance, detail,
                     some(extensionsWithErrors.r))

\* { ...getExtensionsOrEmpty(m), [extensionsErrorKey]: errors }
badRequestErrorsLast(h, instance, type, detail, errors, maybeExtensions) ==
    LET g == getExtensionsOrEmpty(h, maybeExtensions)
        extensionsWithErrors ==
            Alloc(g.h, Put(Spread(EmptyObject, g.h[g.r.v]),
                           extensionsErrorKey, errors))
    IN  buildProblem(extensionsWithErrors.h, statusCodes.badRequest,
                     "Bad Request", type, instance, detail,
                     some(extensionsWithErrors.r))

badRequest(h, instance, type, detail, errors, maybeExtensions) ==
    LET g == getExtensionsOrEmpty(h, maybeExtensions)
        extensionsWithErrors ==
            Alloc(g.h, Spread(Put(EmptyObject, extensionsErrorKey, errors),
                              g.h[g.r.v]))
    IN  buildProblem(extensionsWithErrors.h, statusCodes.badRequest,
                     "Bad Request", type, instance, detail,
                     some(extensionsWithErrors.r))

\* the extension argument is not passed on
conflictNoExtensions(h, instance, type, detail, maybeExtensions) ==
    buildProblem(h, statusCodes.conflict, "Conflict",
                 type, instance, detail, none)

conflict(h, instance, type, detail, maybeExtensions) ==
    buildProblem(h, statusCodes.conflict, "Conflict",
                 type, instance, detail, maybeExtensions)

\* the title of 401 under the status 403
forbiddenTitledUnauthorized(h, instance, type, detail, maybeExtensions) ==
    buildProblem(h, statusCodes.forbidden, "Unauthorized",
                 type, instance, detail, maybeExtensions)

forbidden(h, instance, type, detail, maybeExtensions) ==
    buildProblem(h, statusCodes.forbidden, "Forbidden",
                 type, instance, detail, maybeExtensions)

\* built as the field-errors constructors are, with an empty errors map
goneWithErrors(h, instance, type, detail, maybeExtensions) ==
    LET g == getExtensionsOrEmpty(h, maybeExtensions)
        e == Alloc(g.h, EmptyObject)
        extensionsWithErrors ==
            Alloc(e.h, Spread(Put(EmptyObject, extensionsErrorKey, e.r),
                              e.h[g.r.v]))
    IN  buildProblem(extensionsWithErrors.h, statusCodes.gone, "Gone",
                     type, instance, detail, some(extensionsWithErrors.r))

gone(h, instance, type, detail, maybeExtensions) ==
    buildProblem(h, statusCodes.gone, "Gone",
                 type, instance, detail, maybeExtensions)

\* Object.assign(x, { errors }) on the caller's bag, then the bag is passed on
internalServerErrorAssign(h, instance, type, detail, errors, maybeExtensions) ==
    IF maybeExtensions.tag = "some"
    THEN buildProblem([h EXCEPT ![maybeExtensions.value.v] =
                          Put(@, extensionsErrorKey, errors)],
                      statusCodes.internalServerError,
                      "Internal Server Error", type, instance, detail,
                      maybeExtensions)
    ELSE LET e == Alloc(h, Put(EmptyObject, extensionsErrorKey, errors))
         IN  buildProblem(e.h, statusCodes.internalServerError,
                          "Internal Server Error", type, instance, detail,
                          some(e.r))

\* the field-errors map is left out of the merged mapping
internalServerErrorNoErrors(h, instance, type, detail, errors, maybeExtensions) ==
    LET g == getExtensionsOrEmpty(h, maybeExtensions)
    IN  buildProblem(g.h, statusCodes.internalServerError,
                     "Internal Server Error", type, instance, detail,
                     some(g.r))

\* the detail of a server failure is withheld
internalServerErrorHidesDetail(h, instance, type, detail, errors, maybeExtensions) ==
    LET g == getExtensionsOrEmpty(h, maybeExtensions)
        extensionsWithErrors ==
            Alloc(g.h, Spread(Put(EmptyObject, extensionsErrorKey, errors),
                              g.h[g.r.v]))
    IN  buildProblem(extensionsWithErrors.h, statusCodes.internalServerError,
                     "Internal Server Error", type, instance, "",
                     some(extensionsWithErrors.r))

internalServerError(h, instance, type, detail, errors, maybeExtensions) ==
    LET g == getExtensionsOrEmpty(h, maybeExtensions)
        extensionsWithErrors ==
            Alloc(g.h, Spread(Put(EmptyObject, extensionsErrorKey, errors),
                              g.h[g.r.v]))
    IN  buildProblem(extensionsWithErrors.h, statusCodes.internalServerError,
                     "Internal Server Error", type, instance, detail,
                     some(extensionsWithErrors.r))

methodNotAllowed(h, instance, type, detail, maybeExtensions) ==
    buildProblem(h, statusCodes.methodNotAllowed, "Method Not Allowed",
                 type, instance, detail, maybeExtensions)

notAcceptable(h, instance, type, detail, maybeExtensions) ==
    buildProblem(h, statusCodes.notAcceptable, "Not Acceptable",
                 type, instance, detail, maybeExtensions)

notFound(h, instance, type, detail, maybeExtensions) ==
    buildProblem(h, statusCodes.notFound, "Not Found",
                 type, instance, detail, maybeExtensions)

notImplemented(h, instance, type, detail, maybeExtensions) ==
    buildProblem(h, statusCodes.notImplemented, "Not Implemented",
                 type, instance, detail, maybeExtensions)

paymentRequired(h, instance, type, detail, maybeExtensions) ==
    buildProblem(h, statusCodes.paymentRequired, "Payment Required",
                 type, instance, detail, maybeExtensions)

\* the outcome of a call that ends in an exception instead of a record
Thrown ==
    [detail |-> "", extensions |-> Undefined, instance |-> "", status |-> -1,
     title |-> "TypeError", type |-> ""]

\* deep merge: when the bag's "errors" is a mapping too, its keys are merged
\* with those of the field-errors map
preconditionFailedDeepMerge(h, instance, type, detail, errors, maybeExtensions) ==
    LET g == getExtensionsOrEmpty(h, maybeExtensions)
        own == Get(g.h[g.r.v], extensionsErrorKey)
        merged ==
            IF own.t = "ref"
            THEN Alloc(g.h, Spread(Spread(EmptyObject, g.h[errors.v]),
                                   g.h[own.v]))
            ELSE [h |-> g.h, r |-> own]
        extensionsWithErrors ==
            Alloc(merged.h,
                  Put(Spread(Put(EmptyObject, extensionsErrorKey, errors),
                             merged.h[g.r.v]),
                      extensionsErrorKey,
                      IF own.t = "undefined" THEN errors ELSE merged.r))
    IN  buildProblem(extensionsWithErrors.h, statusCodes.preconditionFailed,
                     "Precondition Failed", type, instance, detail,
                     some(extensionsWithErrors.r))

\* an empty field-errors map is rejected
preconditionFailedRejectsEmpty(h, instance, type, detail, errors, maybeExtensions) ==
    IF h[errors.v] = EmptyObject
    THEN [h |-> h, r |-> Thrown]
    ELSE LET g == getExtensionsOrEmpty(h, maybeExtensions)
             extensionsWithErrors ==
                 Alloc(g.h, Spread(Put(EmptyObject, extensionsErrorKey, errors),
                                   g.h[g.r.v]))
         IN  buildProblem(extensionsWithErrors.h, statusCodes.preconditionFailed,
                          "Precondition Failed", type, instance, detail,
                          some(extensionsWithErrors.r))

preconditionFailed(h, instance, type, detail, errors, maybeExtensions) ==
    LET g == getExtensionsOrEmpty(h, maybeExtensions)
        extensionsWithErrors ==
            Alloc(g.h, Spread(Put(EmptyObject, extensionsErrorKey, errors),
                              g.h[g.r.v]))
    IN  buildProblem(extensionsWithErrors.h, statusCodes.preconditionFailed,
                     "Precondition Failed", type, instance, detail,
                     some(extensionsWithErrors.r))

preconditionRequired(h, instance, type, detail, maybeExtensions) ==
    buildProblem(h, statusCodes.preconditionRequired, "Precondition Required",
                 type, instance, detail, maybeExtensions)

requestTimeout(h, instance, type, detail, maybeExtensions) ==
    buildProblem(h, statusCodes.requestTimeout, "Request Timeout",
                 type, instance, detail, maybeExtensions)

serviceUnavailable(h, instance, type, detail, maybeExtensions) ==
    buildProblem(h, statusCodes.serviceUnavailable, "Service Unavailable",
                 type, instance, detail, maybeExtensions)

tooManyRequests(h, instance, type, detail, maybeExtensions) ==
    buildProblem(h, statusCodes.tooManyRequests, "Too Many Requests",
                 type, instance, detail, maybeExtensions)

\* built as the field-errors constructors are, with an empty errors map
unauthorizedWithErrors(h, instance, type, detail, maybeExtensions) ==
    LET g == getExtensionsOrEmpty(h, maybeExtensions)
        e == Alloc(g.h, EmptyObject)
        extensionsWithErrors ==
            Alloc(e.h, Spread(Put(EmptyObject, extensionsErrorKey, e.r),
                              e.h[g.r.v]))
    IN  buildProblem(extensionsWithErrors.h, statusCodes.unauthorized,
                     "Unauthorized", type, instance, detail,
                     some(extensionsWithErrors.r))

unauthorized(h, instance, type, detail, maybeExtensions) ==
    buildProblem(h, statusCodes.unauthorized, "Unauthorized",
                 type, instance, detail, maybeExtensions)

unavailableForLegalReasons(h, instance, type, detail, maybeExtensions) ==
    buildProblem(h, statusCodes.unavailableForLegalReasons, "Unavailable For Legal Reasons",
                 type, instance, detail, maybeExtensions)

\* an empty errors map is left out of the extensions
unprocessableContentSkipsEmpty(h, instance, type, detail, errors, maybeExtensions) ==
    LET g == getExtensionsOrEmpty(h, maybeExtensions)
        extensionsWithErrors ==
            Alloc(g.h, Spread(Put(EmptyObject, extensionsErrorKey, errors),
                              g.h[g.r.v]))
    IN  IF h[errors.v] = EmptyObject
        THEN buildProblem(h, statusCodes.unprocessableContent,
                          "Unprocessable Content", type, instance, detail,
                          maybeExtensions)
        ELSE buildProblem(extensionsWithErrors.h,
                          statusCodes.unprocessableContent,
                          "Unprocessable Content", type, instance, detail,
                          some(extensionsWithErrors.r))

unprocessableContent(h, instance, type, detail, errors, maybeExtensions) ==
    LET g == getExtensionsOrEmpty(h, maybeExtensions)
        extensionsWithErrors ==
            Alloc(g.h, Spread(Put(EmptyObject, extensionsErrorKey, errors),
                              g.h[g.r.v]))
    IN  buildProblem(extensionsWithErrors.h, statusCodes.unprocessableContent,
                     "Unprocessable Content", type, instance, detail,
                     some(extensionsWithErrors.r))

unsupportedMediaType(h, instance, type, detail, maybeExtensions) ==
    buildProblem(h, statusCodes.unsupportedMediaType, "Unsupported Media Type",
                 type, instance, detail, maybeExtensions)

(***************************************************************************)
(* The caller.  It owns three objects, as the callers of the test suite    *)
(* do: the field-errors map `errors`, the extension bag `extensions` and   *)
(* an object stored as a value inside the bag (`deltaValue`).  They are    *)
(* the first three objects of the heap.                                    *)
(***************************************************************************)
EId == 1
BId == 2
NId == 3
NRoots == 3

ErrKeys == {"a.b", "c"}
MsgLists == {Prim(1)}
BagKeys == {"errors", "x", "0"}
BagValues == {Prim(1), Ref(NId)}
\* the string arguments: all empty, all different, one empty
Texts ==
    {[instance |-> "", type |-> "", detail |-> ""],
     [instance |-> "/widgets/42", type |-> "about:blank",
      detail |-> "Widget not found"],
     [instance |-> "/widgets/42", type |-> "", detail |-> "Widget not found"]}

\* the objects of at most maxLen entries over the keys and the values, in
\* the property order of the language
Objects(keys, values, maxLen) ==
    {o \in UNION {[1..n -> [k : keys, v : values]] : n \in 0..maxLen} :
        /\ \A i, j \in 1..Len(o) : o[i].k = o[j].k => i = j
        /\ \A i, j \in 1..Len(o) :
              (i < j /\ o[j].k \in IndexKeys) => o[i].k \in IndexKeys}

ErrorsMaps == Objects(ErrKeys, MsgLists, MaxErrLen)
Bags == Objects(BagKeys, BagValues, MaxBagLen)
Nested == << [k |-> "hello", v |-> Prim(7)] >>
MaybeArgs == {none, some(Ref(BId))}

FieldErrorsConstructors ==
    {"badRequest", "internalServerError", "preconditionFailed",
     "unprocessableContent"}

NoCall ==
    [ctor |-> "", instance |-> "", type |-> "", detail |-> "",
     maybeExtensions |-> none, errors |-> EmptyObject, bag |-> EmptyObject]
NoProblem ==
    [detail |-> "", extensions |-> Undefined, instance |-> "", status |-> 0,
     title |-> "", type |-> ""]

(***************************************************************************)
(* JSON.stringify and JSON.parse, which the callers apply to a record.     *)
(* The text is a sequence of tokens.  stringify leaves out a property      *)
(* whose value is undefined and writes null for null; parse builds new     *)
(* objects, children before parents, on a heap of its own (they refer to   *)
(* no object that existed before).                                         *)
(***************************************************************************)
Tok(t, s, n) == [t |-> t, s |-> s, n |-> n]
LBrace == Tok("{", "", 0)
RBrace == Tok("}", "", 0)
Colon == Tok(":", "", 0)
Comma == Tok(",", "", 0)
NullTok == Tok("null", "", 0)
StrTok(s) == Tok("str", s, 0)
NumTok(n) == Tok("num", "", n)

\* the own properties of a record, in the order of the literal of buildProblem
ProblemEntries(p) ==
    << [k |-> "detail", v |-> Str(p.detail)],
       [k |-> "extensions", v |-> p.extensions],
       [k |-> "instance", v |-> Str(p.instance)],
       [k |-> "status", v |-> Prim(p.status)],
       [k |-> "title", v |-> Str(p.title)],
       [k |-> "type", v |-> Str(p.type)] >>

RECURSIVE stringify(_, _), stringifyEntries(_, _, _)
stringify(h, v) ==
    CASE v.t = "prim" -> <<NumTok(v.v)>>
      [] v.t = "str" -> <<StrTok(v.s)>>
      [] v.t = "null" -> <<NullTok>>
      [] v.t = "ref" ->
            <<LBrace>> \o stringifyEntries(h, h[v.v], TRUE) \o <<RBrace>>
      [] OTHER -> <<>>

\* the members of an object; `first` tells that no member was written yet
stringifyEntries(h, o, first) ==
    IF o = <<>> THEN <<>>
    ELSE IF o[1].v.t = "undefined" THEN stringifyEntries(h, Tail(o), first)
    ELSE (IF first THEN <<>> ELSE <<Comma>>)
         \o <<StrTok(o[1].k), Colon>>
         \o stringify(h, o[1].v)
         \o stringifyEntries(h, Tail(o), FALSE)

\* JSON.stringify(problem)
stringifyProblem(h, p) ==
    <<LBrace>> \o stringifyEntries(h, ProblemEntries(p), TRUE) \o <<RBrace>>

RECURSIVE parseValue(_, _), parseMembers(_, _, _)
\* the value at the head of toks: the value v, the heap h, the tokens left
parseValue(toks, h) ==
    CASE toks[1].t = "num" -> [v |-> Prim(toks[1].n), h |-> h, rest |-> Tail(toks)]
      [] toks[1].t = "str" -> [v |-> Str(toks[1].s), h |-> h, rest |-> Tail(toks)]
      [] toks[1].t = "null" -> [v |-> Null, h |-> h, rest |-> Tail(toks)]
      [] toks[1].t = "{" ->
            LET m == parseMembers(Tail(toks), h, EmptyObject)
            IN  [v |-> Ref(Len(m.h) + 1), h |-> Append(m.h, m.o),
                 rest |-> m.rest]

\* the members up to the closing brace, added to o
parseMembers(toks, h, o) ==
    IF toks[1] = RBrace THEN [o |-> o, h |-> h, rest |-> Tail(toks)]
    ELSE IF toks[1] = Comma THEN parseMembers(Tail(toks), h, o)
    ELSE LET val == parseValue(SubSeq(toks, 3, Len(toks)), h)
         IN  parseMembers(val.rest, val.h, Put(o, toks[1].s, val.v))

\* JSON.parse(text): the new objects h and the reference r of the result
parse(toks) ==
    LET val == parseValue(toks, <<>>) IN [h |-> val.h, r |-> val.v]

NoParsed == [h |-> <<>>, r |-> Undefined]

\* the caller keeps no earlier record
NoKept == [problem |-> NoProblem, call |-> NoCall, ext |-> EmptyObject]

Init ==
    /\ \E e \in ErrorsMaps, b \in Bags : heap = <<e, b, Nested>>
    /\ problem = NoProblem
    /\ call = NoCall
    /\ pc = "idle"
    /\ mutations = 0
    /\ wire = <<>>
    /\ parsed = NoParsed
    /\ tasks = <<>>
    /\ kept = NoKept

\* The objects a call allocated and did not return are garbage when it
\* returns: the heap keeps the caller's objects and the record's extensions.
Release(out) ==
    IF out.r.extensions.t = "ref" /\ out.r.extensions.v > NRoots
    THEN [h |-> Append(SubSeq(out.h, 1, NRoots), out.h[out.r.extensions.v]),
          r |-> [out.r EXCEPT !.extensions = Ref(NRoots + 1)]]
    ELSE [h |-> SubSeq(out.h, 1, NRoots), r |-> out.r]

\* the caller, holding no record, receives the record `out.r` of constructor c;
\* call keeps the arguments, with the content the field-errors map and the
\* extension bag had when the call was made
Returned(c, out, instance, type, detail, m) ==
    /\ pc = "idle"
    /\ heap' = Release(out).h
    /\ problem' = Release(out).r
    /\ call' = [ctor |-> c, instance |-> instance, type |-> type,
                detail |-> detail, maybeExtensions |-> m,
                errors |-> heap[EId],
                bag |-> IF m.tag = "some" THEN heap[m.value.v]
                        ELSE EmptyObject]
    /\ pc' = "returned"
    /\ mutations' = 0
    /\ UNCHANGED <<wire, parsed, tasks, kept>>

CallBadRequest ==
    \E s \in Texts, m \in MaybeArgs :
        Returned("badRequest",
                 badRequest(heap, s.instance, s.type, s.detail, Ref(EId), m),
                 s.instance, s.type, s.detail, m)

CallConflict ==
    \E s \in Texts, m \in MaybeArgs :
        Returned("conflict",
                 conflict(heap, s.instance, s.type, s.detail, m),
                 s.instance, s.type, s.detail, m)

CallForbidden ==
    \E s \in Texts, m \in MaybeArgs :
        Returned("forbidden",
                 forbidden(heap, s.instance, s.type, s.detail, m),
                 s.instance, s.type, s.detail, m)

CallGone ==
    \E s \in Texts, m \in MaybeArgs :
        Returned("gone",
                 gone(heap, s.instance, s.type, s.detail, m),
                 s.instance, s.type, s.detail, m)

CallInternalServerError ==
    \E s \in Texts, m \in MaybeArgs :
        Returned("internalServerError",
                 internalServerError(heap, s.instance, s.type, s.detail, Ref(EId), m),
                 s.instance, s.type, s.detail, m)

CallMethodNotAllowed ==
    \E s \in Texts, m \in MaybeArgs :
        Returned("methodNotAllowed",
                 methodNotAllowed(heap, s.instance, s.type, s.detail, m),
                 s.instance, s.type, s.detail, m)

CallNotAcceptable ==
    \E s \in Texts, m \in MaybeArgs :
        Returned("notAcceptable",
                 notAcceptable(heap, s.instance, s.type, s.detail, m),
                 s.instance, s.type, s.detail, m)

CallNotFound ==
    \E s \in Texts, m \in MaybeArgs :
        Returned("notFound",
                 notFound(heap, s.instance, s.type, s.detail, m),
                 s.instance, s.type, s.detail, m)

CallNotImplemented ==
    \E s \in Texts, m \in MaybeArgs :
        Returned("notImplemented",
                 notImplemented(heap, s.instance, s.type, s.detail, m),
                 s.instance, s.type, s.detail, m)

CallPaymentRequired ==
    \E s \in Texts, m \in MaybeArgs :
        Returned("paymentRequired",
                 paymentRequired(heap, s.instance, s.type, s.detail, m),
                 s.instance, s.type, s.detail, m)

CallPreconditionFailed ==
    \E s \in Texts, m \in MaybeArgs :
        Returned("preconditionFailed",
                 preconditionFailed(heap, s.instance, s.type, s.detail, Ref(EId), m),
                 s.instance, s.type, s.detail, m)

CallPreconditionRequired ==
    \E s \in Texts, m \in MaybeArgs :
        Returned("preconditionRequired",
                 preconditionRequired(heap, s.instance, s.type, s.detail, m),
                 s.instance, s.type, s.detail, m)

CallRequestTimeout ==
    \E s \in Texts, m \in MaybeArgs :
        Returned("requestTimeout",
                 requestTimeout(heap, s.instance, s.type, s.detail, m),
                 s.instance, s.type, s.detail, m)

CallServiceUnavailable ==
    \E s \in Texts, m \in MaybeArgs :
        Returned("serviceUnavailable",
                 serviceUnavailable(heap, s.instance, s.type, s.detail, m),
                 s.instance, s.type, s.detail, m)

CallTooManyRequests ==
    \E s \in Texts, m \in MaybeArgs :
        Returned("tooManyRequests",
                 tooManyRequests(heap, s.instance, s.type, s.detail, m),
                 s.instance, s.type, s.detail, m)

CallUnauthorized ==
    \E s \in Texts, m \in MaybeArgs :
        Returned("unauthorized",
                 unauthorized(heap, s.instance, s.type, s.detail, m),
                 s.instance, s.type, s.detail, m)

CallUnavailableForLegalReasons ==
    \E s \in Texts, m \in MaybeArgs :
        Returned("unavailableForLegalReasons",
                 unavailableForLegalReasons(heap, s.instance, s.type, s.detail, m),
                 s.instance, s.type, s.detail, m)

CallUnprocessableContent ==
    \E s \in Texts, m \in MaybeArgs :
        Returned("unprocessableContent",
                 unprocessableContent(heap, s.instance, s.type, s.detail, Ref(EId), m),
                 s.instance, s.type, s.detail, m)

CallUnsupportedMediaType ==
    \E s \in Texts, m \in MaybeArgs :
        Returned("unsupportedMediaType",
                 unsupportedMediaType(heap, s.instance, s.type, s.detail, m),
                 s.instance, s.type, s.detail, m)

\* after the call the caller writes a key of its extension bag
BagSet ==
    /\ pc \in {"returned", "mutated"}
    /\ mutations < MaxMutations
    /\ \E k \in BagKeys, v \in BagValues :
        /\ Has(heap[BId], k) \/ Len(heap[BId]) < MaxBagLen
        /\ Get(heap[BId], k) # v
        /\ heap' = [heap EXCEPT ![BId] = Put(@, k, v)]
    /\ pc' = "mutated"
    /\ mutations' = mutations + 1
    /\ UNCHANGED <<problem, call, wire, parsed, tasks, kept>>

\* after the call the caller deletes a key of its extension bag
BagDelete ==
    /\ pc \in {"returned", "mutated"}
    /\ mutations < MaxMutations
    /\ \E k \in BagKeys :
        /\ Has(heap[BId], k)
        /\ heap' = [heap EXCEPT ![BId] = Delete(@, k)]
    /\ pc' = "mutated"
    /\ mutations' = mutations + 1
    /\ UNCHANGED <<problem, call, wire, parsed, tasks, kept>>

\* after the call the caller writes a key of its field-errors map
ErrorsSet ==
    /\ pc \in {"returned", "mutated"}
    /\ mutations < MaxMutations
    /\ \E k \in ErrKeys, v \in MsgLists :
        /\ Has(heap[EId], k) \/ Len(heap[EId]) < MaxErrLen
        /\ Get(heap[EId], k) # v
        /\ heap' = [heap EXCEPT ![EId] = Put(@, k, v)]
    /\ pc' = "mutated"
    /\ mutations' = mutations + 1
    /\ UNCHANGED <<problem, call, wire, parsed, tasks, kept>>

\* after the call the caller deletes a key of its field-errors map
ErrorsDelete ==
    /\ pc \in {"returned", "mutated"}
    /\ mutations < MaxMutations
    /\ \E k \in ErrKeys :
        /\ Has(heap[EId], k)
        /\ heap' = [heap EXCEPT ![EId] = Delete(@, k)]
    /\ pc' = "mutated"
    /\ mutations' = mutations + 1
    /\ UNCHANGED <<problem, call, wire, parsed, tasks, kept>>

\* the caller serializes the record it holds
Serialize ==
    /\ pc \in {"returned", "mutated"}
    /\ wire' = stringifyProblem(heap, problem)
    /\ pc' = "serialized"
    /\ UNCHANGED <<heap, problem, call, mutations, parsed, tasks, kept>>

\* the caller parses the text back
Parse ==
    /\ pc = "serialized"
    /\ parsed' = parse(wire)
    /\ pc' = "parsed"
    /\ UNCHANGED <<heap, problem, call, mutations, wire, tasks, kept>>

\* the caller drops the record (it is a value used once) and goes on with
\* its objects as they are now
Discard ==
    /\ pc \in {"returned", "mutated", "serialized", "parsed"}
    /\ heap' = SubSeq(heap, 1, NRoots)
    /\ problem' = NoProblem
    /\ call' = NoCall
    /\ pc' = "idle"
    /\ mutations' = 0
    /\ wire' = <<>>
    /\ parsed' = NoParsed
    /\ UNCHANGED <<tasks, kept>>

Next ==
    \/ CallBadRequest
    \/ CallConflict
    \/ CallForbidden
    \/ CallGone
    \/ CallInternalServerError
    \/ CallMethodNotAllowed
    \/ CallNotAcceptable
    \/ CallNotFound
    \/ CallNotImplemented
    \/ CallPaymentRequired
    \/ CallPreconditionFailed
    \/ CallPreconditionRequired
    \/ CallRequestTimeout
    \/ CallServiceUnavailable
    \/ CallTooManyRequests
    \/ CallUnauthorized
    \/ CallUnavailableForLegalReasons
    \/ CallUnprocessableContent
    \/ CallUnsupportedMediaType
    \/ BagSet
    \/ BagDelete
    \/ ErrorsSet
    \/ ErrorsDelete
    \/ Serialize
    \/ Parse
    \/ Discard

Spec == Init /\ [][Next]_vars

(***************************************************************************)
(* Properties.  `problem` is the record the last call returned and `call`  *)
(* its arguments; at pc = "returned" nothing was changed since the return. *)
(***************************************************************************)
ExtPresent == problem.extensions.t = "ref"
\* the mapping problem.extensions refers to
Ext == IF ExtPresent THEN heap[problem.extensions.v] ELSE EmptyObject
IsFieldErrorsCall == call.ctor \in FieldErrorsConstructors
IsPlainCall == call.ctor # "" /\ call.ctor \notin FieldErrorsConstructors
ExtensionsGiven == call.maybeExtensions.tag = "some"

\* the status/title pairs as the specification lists them
FixedPair ==
    [badRequest |-> <<400, "Bad Request">>,
     unauthorized |-> <<401, "Unauthorized">>,
     paymentRequired |-> <<402, "Payment Required">>,
     forbidden |-> <<403, "Forbidden">>,
     notFound |-> <<404, "Not Found">>,
     methodNotAllowed |-> <<405, "Method Not Allowed">>,
     notAcceptable |-> <<406, "Not Acceptable">>,
     requestTimeout |-> <<408, "Request Timeout">>,
     conflict |-> <<409, "Conflict">>,
     gone |-> <<410, "Gone">>,
     preconditionFailed |-> <<412, "Precondition Failed">>,
     unsupportedMediaType |-> <<415, "Unsupported Media Type">>,
     unprocessableContent |-> <<422, "Unprocessable Content">>,
     preconditionRequired |-> <<428, "Precondition Required">>,
     tooManyRequests |-> <<429, "Too Many Requests">>,
     unavailableForLegalReasons |-> <<451, "Unavailable For Legal Reasons">>,
     internalServerError |-> <<500, "Internal Server Error">>,
     notImplemented |-> <<501, "Not Implemented">>,
     serviceUnavailable |-> <<503, "Service Unavailable">>]

\* C1: whatever the arguments, the record a constructor returns carries the
\* status and the title that the specification fixes for that constructor.
C1_FixedStatusAndTitle ==
    pc = "returned" =>
        /\ call.ctor \in DOMAIN FixedPair
        /\ problem.status = FixedPair[call.ctor][1]
        /\ problem.title = FixedPair[call.ctor][2]

C1_Witness ==
    /\ pc = "returned"
    /\ call.ctor = "unavailableForLegalReasons"
    /\ ExtensionsGiven
    /\ problem.status = 451
    /\ problem.title = "Unavailable For Legal Reasons"

\* C2: a constructor without field-errors argument that is called with none
\* returns a record whose extensions is undefined.
C2_NoneGivesAbsent ==
    (pc = "returned" /\ IsPlainCall /\ ~ExtensionsGiven) =>
        problem.extensions = Undefined

C2_Witness ==
    /\ pc = "returned"
    /\ call.ctor = "notFound"
    /\ call.maybeExtensions = none
    /\ heap[BId] # EmptyObject
    /\ problem.extensions = Undefined

\* C3: a field-errors constructor called with a non-empty field-errors map
\* and none returns extensions with the single key "errors", whose value is
\* the map that was passed, with the content it was passed with.
C3_ErrorsOnly ==
    (pc = "returned" /\ IsFieldErrorsCall /\ ~ExtensionsGiven
        /\ call.errors # EmptyObject) =>
        /\ ExtPresent
        /\ Len(Ext) = 1
        /\ Keys(Ext) = {"errors"}
        /\ Get(Ext, "errors") = Ref(EId)
        /\ heap[EId] = call.errors

C3_Witness ==
    /\ pc = "returned"
    /\ call.ctor = "preconditionFailed"
    /\ ~ExtensionsGiven
    /\ call.errors = << [k |-> "c", v |-> Prim(1)] >>
    /\ Ext = << [k |-> "errors", v |-> Ref(EId)] >>

\* C4: a field-errors constructor called with a present bag that has no
\* "errors" key returns extensions whose keys are "errors" and the keys of
\* the bag, "errors" holding the field-errors map and every key of the bag
\* the bag's value: the bag's keys are at the top level, beside "errors".
C4_ErrorsBesideExtensions ==
    (pc = "returned" /\ IsFieldErrorsCall /\ ExtensionsGiven
        /\ ~Has(call.bag, "errors")) =>
        /\ ExtPresent
        /\ Keys(Ext) = {"errors"} \union Keys(call.bag)
        /\ Len(Ext) = 1 + Len(call.bag)
        /\ Get(Ext, "errors") = Ref(EId)
        /\ heap[EId] = call.errors
        /\ \A k \in Keys(call.bag) : Get(Ext, k) = Get(call.bag, k)

C4_Witness ==
    /\ pc = "returned"
    /\ call.ctor = "badRequest"
    /\ call.errors = << [k |-> "a.b", v |-> Prim(1)] >>
    /\ call.bag = << [k |-> "0", v |-> Ref(NId)], [k |-> "x", v |-> Prim(1)] >>
    /\ Ext = << [k |-> "0", v |-> Ref(NId)], [k |-> "errors", v |-> Ref(EId)],
                [k |-> "x", v |-> Prim(1)] >>

\* C5: when the present bag of a field-errors constructor has itself the key
\* "errors", extensions["errors"] is the bag's value and not the field-errors
\* map.
C5_CallerErrorsWin ==
    (pc = "returned" /\ IsFieldErrorsCall /\ ExtensionsGiven
        /\ Has(call.bag, "errors")) =>
        /\ ExtPresent
        /\ Get(Ext, "errors") = Get(call.bag, "errors")
        /\ Get(Ext, "errors") # Ref(EId)

C5_Witness ==
    /\ pc = "returned"
    /\ call.ctor = "unprocessableContent"
    /\ call.errors # EmptyObject
    /\ Get(call.bag, "errors") = Prim(1)
    /\ Get(Ext, "errors") = Prim(1)

\* C6: the record's extensions is present exactly when the constructor takes
\* a field-errors map or the extension argument is some; it is undefined
\* exactly when the constructor takes none and the argument is none.
C6_PresentIffSupplied ==
    pc = "returned" =>
        /\ ExtPresent <=> (IsFieldErrorsCall \/ ExtensionsGiven)
        /\ problem.extensions = Undefined <=>
               (IsPlainCall /\ ~ExtensionsGiven)

C6_Witness ==
    /\ pc = "returned"
    /\ call.ctor = "conflict"
    /\ ExtensionsGiven
    /\ call.bag = EmptyObject
    /\ ExtPresent

\* C7, as the specification states it: a constructor without field-errors
\* argument that is called with a present but empty bag returns a record
\* whose extensions is absent.
C7_EmptyBagGivesAbsent ==
    (pc = "returned" /\ IsPlainCall /\ ExtensionsGiven
        /\ call.bag = EmptyObject) =>
        problem.extensions = Undefined

\* C7, amended: extensions is present only when the constructor takes a
\* field-errors map or the extension argument is present, and a present but
\* empty bag given to a constructor without field-errors argument yields a
\* present, empty extensions.
C7_EmptyBagGivesEmpty ==
    pc = "returned" =>
        /\ ExtPresent => (IsFieldErrorsCall \/ ExtensionsGiven)
        /\ (IsPlainCall /\ ExtensionsGiven /\ call.bag = EmptyObject) =>
               (ExtPresent /\ Ext = EmptyObject)

C7_Witness ==
    /\ pc = "returned"
    /\ call.ctor = "gone"
    /\ ExtensionsGiven
    /\ call.bag = EmptyObject
    /\ problem.extensions = Ref(NRoots + 1)
    /\ Ext = EmptyObject

\* C8: the extensions of a record built from a present bag is another object
\* than the bag, and a step of the caller that adds, replaces or removes a
\* top-level key of the bag leaves the record and the content of its
\* extensions as they were.
C8_NoAliasing ==
    /\ []((pc # "idle" /\ ExtensionsGiven) =>
            (ExtPresent /\ problem.extensions # Ref(BId)))
    /\ [][(pc # "idle" /\ pc' # "idle" /\ ExtensionsGiven
            /\ heap'[BId] # heap[BId]) =>
            (problem' = problem /\ Ext' = Ext)]_vars

C8_Witness ==
    /\ pc = "mutated"
    /\ call.ctor = "tooManyRequests"
    /\ ExtensionsGiven
    /\ call.bag = << [k |-> "x", v |-> Prim(1)] >>
    /\ heap[BId] = EmptyObject
    /\ Ext = call.bag

\* C9: a constructor without field-errors argument that is called with a
\* present bag returns extensions with exactly the keys of the bag and the
\* bag's values, "errors" being there only if the bag has it.
C9_PlainCopy ==
    (pc = "returned" /\ IsPlainCall /\ ExtensionsGiven) =>
        /\ ExtPresent
        /\ Keys(Ext) = Keys(call.bag)
        /\ Len(Ext) = Len(call.bag)
        /\ \A k \in Keys(call.bag) : Get(Ext, k) = Get(call.bag, k)
        /\ Has(Ext, "errors") <=> Has(call.bag, "errors")

C9_Witness ==
    /\ pc = "returned"
    /\ call.ctor = "unauthorized"
    /\ call.bag = << [k |-> "0", v |-> Prim(1)], [k |-> "x", v |-> Ref(NId)] >>
    /\ Ext = call.bag

\* C10: the record's instance, type and detail are the instance, type and
\* detail arguments of the call, each in its own field.
C10_StringsKept ==
    pc = "returned" =>
        /\ problem.instance = call.instance
        /\ problem.type = call.type
        /\ problem.detail = call.detail

C10_Witness ==
    /\ pc = "returned"
    /\ call.ctor = "notFound"
    /\ call.instance = "/widgets/42"
    /\ call.type = ""
    /\ call.detail = "Widget not found"
    /\ problem.instance = "/widgets/42"
    /\ problem.type = ""
    /\ problem.detail = "Widget not found"

\* the nesting depth of token i of a text
Depth(toks, i) ==
    Cardinality({j \in 1..(i - 1) : toks[j] = LBrace})
        - Cardinality({j \in 1..(i - 1) : toks[j] = RBrace})

\* the positions of the top-level keys named k in a text
TopKeyAt(toks, k) ==
    {i \in 1..(Len(toks) - 1) :
        toks[i] = StrTok(k) /\ toks[i + 1] = Colon /\ Depth(toks, i) = 1}

\* C11: the serialized form of a record whose extensions is absent has no
\* "extensions" key (it is not there with null either); the serialized form
\* of a record whose extensions is present has the key once, followed by the
\* mapping.
C11_AbsentIsOmitted ==
    pc = "serialized" =>
        /\ problem.extensions.t # "ref" => TopKeyAt(wire, "extensions") = {}
        /\ ExtPresent =>
              /\ Cardinality(TopKeyAt(wire, "extensions")) = 1
              /\ \A i \in TopKeyAt(wire, "extensions") :
                    /\ wire[i + 2] = LBrace
                    /\ \A k \in Keys(Ext) : \E j \in (i + 3)..Len(wire) :
                          /\ wire[j] = StrTok(k)
                          /\ Depth(wire, j) = 2

C11_Witness ==
    /\ pc = "serialized"
    /\ call.ctor = "notFound"
    /\ ~ExtensionsGiven
    /\ problem.extensions = Undefined
    /\ wire = <<LBrace, StrTok("detail"), Colon, StrTok("Widget not found"),
                Comma, StrTok("instance"), Colon, StrTok("/widgets/42"),
                Comma, StrTok("status"), Colon, NumTok(404),
                Comma, StrTok("title"), Colon, StrTok("Not Found"),
                Comma, StrTok("type"), Colon, StrTok("about:blank"), RBrace>>

RECURSIVE DeepEqual(_, _, _, _)
\* structural equality of value v1 on heap h1 and value v2 on heap h2
DeepEqual(h1, v1, h2, v2) ==
    IF v1.t = "ref" /\ v2.t = "ref"
    THEN /\ Keys(h1[v1.v]) = Keys(h2[v2.v])
         /\ \A k \in Keys(h1[v1.v]) :
               DeepEqual(h1, Get(h1[v1.v], k), h2, Get(h2[v2.v], k))
    ELSE v1.t # "ref" /\ v2.t # "ref" /\ v1 = v2

\* the object that parse returned
ParsedObject == parsed.h[parsed.r.v]

\* C12: the record parsed back from the serialized form of a record has the
\* same status, title, type, instance and detail and a structurally equal
\* extensions, an omitted extensions key reading as the absent extensions.
C12_RoundTrip ==
    pc = "parsed" =>
        /\ parsed.r.t = "ref"
        /\ Get(ParsedObject, "status") = Prim(problem.status)
        /\ Get(ParsedObject, "title") = Str(problem.title)
        /\ Get(ParsedObject, "type") = Str(problem.type)
        /\ Get(ParsedObject, "instance") = Str(problem.instance)
        /\ Get(ParsedObject, "detail") = Str(problem.detail)
        /\ DeepEqual(heap, problem.extensions,
                     parsed.h, Get(ParsedObject, "extensions"))
        /\ Keys(ParsedObject) \subseteq
              {"status", "title", "type", "instance", "detail", "extensions"}

C12_Witness ==
    /\ pc = "parsed"
    /\ call.ctor = "badRequest"
    /\ call.errors = << [k |-> "a.b", v |-> Prim(1)] >>
    /\ call.bag = << [k |-> "x", v |-> Ref(NId)] >>
    /\ Get(ParsedObject, "extensions").t = "ref"
    /\ Keys(parsed.h[Get(ParsedObject, "extensions").v]) = {"errors", "x"}
    /\ Len(parsed.h) = 4

\* the outcome of constructor c called on heap h with the strings s and the
\* extension argument m (and the caller's field-errors map, if c takes one)
Construct(c, h, s, m) ==
    CASE c = "badRequest" ->
            badRequest(h, s.instance, s.type, s.detail, Ref(EId), m)
      [] c = "conflict" ->
            conflict(h, s.instance, s.type, s.detail, m)
      [] c = "forbidden" ->
            forbidden(h, s.instance, s.type, s.detail, m)
      [] c = "gone" ->
            gone(h, s.instance, s.type, s.detail, m)
      [] c = "internalServerError" ->
            internalServerError(h, s.instance, s.type, s.detail, Ref(EId), m)
      [] c = "methodNotAllowed" ->
            methodNotAllowed(h, s.instance, s.type, s.detail, m)
      [] c = "notAcceptable" ->
            notAcceptable(h, s.instance, s.type, s.detail, m)
      [] c = "notFound" ->
            notFound(h, s.instance, s.type, s.detail, m)
      [] c = "notImplemented" ->
            notImplemented(h, s.instance, s.type, s.detail, m)
      [] c = "paymentRequired" ->
            paymentRequired(h, s.instance, s.type, s.detail, m)
      [] c = "preconditionFailed" ->
            preconditionFailed(h, s.instance, s.type, s.detail, Ref(EId), m)
      [] c = "preconditionRequired" ->
            preconditionRequired(h, s.instance, s.type, s.detail, m)
      [] c = "requestTimeout" ->
            requestTimeout(h, s.instance, s.type, s.detail, m)
      [] c = "serviceUnavailable" ->
            serviceUnavailable(h, s.instance, s.type, s.detail, m)
      [] c = "tooManyRequests" ->
            tooManyRequests(h, s.instance, s.type, s.detail, m)
      [] c = "unauthorized" ->
            unauthorized(h, s.instance, s.type, s.detail, m)
      [] c = "unavailableForLegalReasons" ->
            unavailableForLegalReasons(h, s.instance, s.type, s.detail, m)
      [] c = "unprocessableContent" ->
            unprocessableContent(h, s.instance, s.type, s.detail, Ref(EId), m)
      [] c = "unsupportedMediaType" ->
            unsupportedMediaType(h, s.instance, s.type, s.detail, m)

Constructors == DOMAIN statusCodes

\* r is a record of one of the 19 statuses whose extensions is undefined or
\* an object of heap h
IsProblem(h, r) ==
    /\ r # Thrown
    /\ r.status \in {statusCodes[c] : c \in Constructors}
    /\ r.title # ""
    /\ \/ r.extensions = Undefined
       \/ r.extensions.t = "ref" /\ r.extensions.v \in 1..Len(h)

\* C13: every constructor returns a record on every input, the empty
\* field-errors map, the empty bag and the absent bag included: no call ends
\* in an error.
C13_Total ==
    /\ pc = "idle" =>
          \A c \in Constructors, s \in Texts, m \in MaybeArgs :
              LET out == Construct(c, heap, s, m)
              IN  IsProblem(out.h, out.r) /\ out.r.status = statusCodes[c]
    /\ pc = "returned" => IsProblem(heap, problem)

C13_Witness ==
    /\ pc = "returned"
    /\ call.ctor = "preconditionFailed"
    /\ call.errors = EmptyObject
    /\ ExtensionsGiven
    /\ call.bag = EmptyObject
    /\ problem.status = 412
    /\ Ext = << [k |-> "errors", v |-> Ref(EId)] >>

(***************************************************************************)
(* Concurrent callers.  Two calls run on the same heap, one statement at a *)
(* time and in any interleaving.  A field-errors constructor has two       *)
(* statements, the literal `extensionsWithErrors` and the return of        *)
(* buildProblem; the other constructors have the return only.  Nothing is  *)
(* released while the calls run.                                           *)
(***************************************************************************)
\* the title literal of every constructor
titles ==
    [badRequest |-> "Bad Request",
     conflict |-> "Conflict",
     forbidden |-> "Forbidden",
     gone |-> "Gone",
     internalServerError |-> "Internal Server Error",
     methodNotAllowed |-> "Method Not Allowed",
     notAcceptable |-> "Not Acceptable",
     notFound |-> "Not Found",
     notImplemented |-> "Not Implemented",
     paymentRequired |-> "Payment Required",
     preconditionFailed |-> "Precondition Failed",
     preconditionRequired |-> "Precondition Required",
     requestTimeout |-> "Request Timeout",
     serviceUnavailable |-> "Service Unavailable",
     tooManyRequests |-> "Too Many Requests",
     unauthorized |-> "Unauthorized",
     unavailableForLegalReasons |-> "Unavailable For Legal Reasons",
     unprocessableContent |-> "Unprocessable Content",
     unsupportedMediaType |-> "Unsupported Media Type"]

\* Object.assign(x, { errors }) on the caller's own bag instead of a literal
extensionsWithErrorsInPlace(h, errors, maybeExtensions) ==
    IF maybeExtensions.tag = "some"
    THEN [h |-> [h EXCEPT ![maybeExtensions.value.v] =
                    Put(@, extensionsErrorKey, errors)],
          r |-> maybeExtensions.value]
    ELSE Alloc(h, Put(EmptyObject, extensionsErrorKey, errors))

\* const extensionsWithErrors =
\*     { [extensionsErrorKey]: errors, ...getExtensionsOrEmpty(maybeExtensions) }
extensionsWithErrors(h, errors, maybeExtensions) ==
    LET g == getExtensionsOrEmpty(h, maybeExtensions)
    IN  Alloc(g.h, Spread(Put(EmptyObject, extensionsErrorKey, errors),
                          g.h[g.r.v]))

Tasks == {1, 2}

\* the strings of the two calls
TaskText(i) ==
    IF i = 1
    THEN [instance |-> "/widgets/42", type |-> "about:blank",
          detail |-> "Widget not found"]
    ELSE [instance |-> "/users", type |-> "", detail |-> "Invalid input"]

\* a call that has not started; `alone` is what the call returns when it is
\* the only one to run on heap h
NewTask(i, c, m, h) ==
    [ctor |-> c, s |-> TaskText(i), m |-> m, at |-> "start",
     local |-> Undefined, result |-> NoProblem,
     alone |-> Construct(c, h, TaskText(i), m)]

\* the two calls are alike, so only the pairs in the order of their status
\* codes are started
InitConcurrent ==
    /\ \E e \in ErrorsMaps, b \in Bags :
        /\ heap = <<e, b, Nested>>
        /\ \E c1, c2 \in Constructors, m1, m2 \in MaybeArgs :
            /\ statusCodes[c1] <= statusCodes[c2]
            /\ tasks = <<NewTask(1, c1, m1, <<e, b, Nested>>),
                         NewTask(2, c2, m2, <<e, b, Nested>>)>>
    /\ problem = NoProblem
    /\ call = NoCall
    /\ pc = "concurrent"
    /\ mutations = 0
    /\ wire = <<>>
    /\ parsed = NoParsed
    /\ kept = NoKept

\* first statement of a field-errors constructor
TaskMerge ==
    \E i \in Tasks :
        /\ tasks[i].at = "start"
        /\ tasks[i].ctor \in FieldErrorsConstructors
        /\ LET e == extensionsWithErrors(heap, Ref(EId), tasks[i].m)
           IN  /\ heap' = e.h
               /\ tasks' = [tasks EXCEPT ![i].at = "merged", ![i].local = e.r]
        /\ UNCHANGED <<problem, call, pc, mutations, wire, parsed, kept>>

\* return buildProblem(...)
TaskBuild ==
    \E i \in Tasks :
        /\ \/ tasks[i].at = "merged"
           \/ tasks[i].at = "start"
              /\ tasks[i].ctor \notin FieldErrorsConstructors
        /\ LET t == tasks[i]
               out == buildProblem(heap, statusCodes[t.ctor], titles[t.ctor],
                                   t.s.type, t.s.instance, t.s.detail,
                                   IF t.at = "merged" THEN some(t.local)
                                   ELSE t.m)
           IN  /\ heap' = out.h
               /\ tasks' = [tasks EXCEPT ![i].at = "done",
                                         ![i].result = out.r]
        /\ UNCHANGED <<problem, call, pc, mutations, wire, parsed, kept>>

NextConcurrent == TaskMerge \/ TaskBuild

SpecConcurrent == InitConcurrent /\ [][NextConcurrent]_vars

\* record r1 on heap h1 and record r2 on heap h2 are structurally equal
SameRecord(h1, r1, h2, r2) ==
    /\ r1.status = r2.status
    /\ r1.title = r2.title
    /\ r1.type = r2.type
    /\ r1.instance = r2.instance
    /\ r1.detail = r2.detail
    /\ DeepEqual(h1, r1.extensions, h2, r2.extensions)

\* C14: whatever the interleaving of the statements of two calls, each call
\* returns a record structurally equal to the one it returns when it runs
\* alone on the caller's objects.
C14_NoInterference ==
    \A i \in DOMAIN tasks :
        tasks[i].at = "done" =>
            SameRecord(heap, tasks[i].result,
                       tasks[i].alone.h, tasks[i].alone.r)

C14_Witness ==
    /\ pc = "concurrent"
    /\ tasks[1].at = "done" /\ tasks[2].at = "done"
    /\ tasks[1].ctor = "badRequest" /\ tasks[2].ctor = "conflict"
    /\ tasks[1].m = some(Ref(BId)) /\ tasks[2].m = some(Ref(BId))
    /\ heap[BId] = << [k |-> "x", v |-> Prim(1)] >>
    /\ tasks[2].result.extensions.v < tasks[1].result.extensions.v
    /\ tasks[1].result.status = 400 /\ tasks[2].result.status = 409

\* what the record shows under extensions["errors"]: the content of the
\* mapping, when the value is a mapping
ExtErrors ==
    IF Get(Ext, "errors").t = "ref" THEN heap[Get(Ext, "errors").v]
    ELSE EmptyObject

\* C15: a record built by a field-errors constructor keeps, under
\* extensions["errors"], the field-errors map as it was passed, also after
\* the caller added, removed or replaced a key of its map.
C15_ErrorsImmutable ==
    (pc \in {"returned", "mutated"} /\ IsFieldErrorsCall
        /\ ~Has(call.bag, "errors")) =>
        /\ Get(Ext, "errors").t = "ref"
        /\ ExtErrors = call.errors

\* C16: a call leaves the caller's objects as they were: the field-errors
\* map, the extension bag and the object stored in the bag have the same
\* keys and values when the call returns; a field-errors constructor does
\* not write "errors" into the caller's bag.
C16_InputsUnchanged ==
    [][(pc = "idle" /\ pc' = "returned") =>
        /\ heap'[EId] = heap[EId]
        /\ heap'[BId] = heap[BId]
        /\ heap'[NId] = heap[NId]
        /\ Has(heap'[BId], "errors") <=> Has(heap[BId], "errors")]_vars

C16_Witness ==
    /\ pc = "returned"
    /\ call.ctor = "internalServerError"
    /\ ExtensionsGiven
    /\ call.bag = << [k |-> "x", v |-> Ref(NId)] >>
    /\ heap[BId] = call.bag
    /\ heap[EId] = call.errors
    /\ Has(Ext, "errors")

\* C17: when the bag given to a field-errors constructor has an "errors" key
\* whose value is itself a mapping, extensions["errors"] is that mapping
\* alone, with none of the keys of the field-errors map, and every other key
\* of extensions holds the bag's value.
C17_ShallowOverwrite ==
    (pc = "returned" /\ IsFieldErrorsCall /\ ExtensionsGiven
        /\ Get(call.bag, "errors").t = "ref") =>
        /\ Get(Ext, "errors") = Get(call.bag, "errors")
        /\ ExtErrors = Nested
        /\ Keys(ExtErrors) \intersect Keys(call.errors) = {}
        /\ Keys(Ext) = Keys(call.bag)
        /\ \A k \in Keys(Ext) : Get(Ext, k) = Get(call.bag, k)

C17_Witness ==
    /\ pc = "returned"
    /\ call.ctor = "preconditionFailed"
    /\ call.errors = << [k |-> "a.b", v |-> Prim(1)] >>
    /\ call.bag = << [k |-> "errors", v |-> Ref(NId)], [k |-> "x", v |-> Prim(1)] >>
    /\ Ext = call.bag
    /\ ExtErrors = << [k |-> "hello", v |-> Prim(7)] >>

\* the keys of an object in their order
KeySeq(o) == [i \in 1..Len(o) |-> o[i].k]

\* C18, as the specification states it: in the extensions a field-errors
\* constructor builds, "errors" is the first key and the other keys of the
\* caller's bag follow in the bag's order, whether or not the bag has an
\* "errors" key of its own.
C18_ErrorsFirst ==
    (pc = "returned" /\ IsFieldErrorsCall) =>
        KeySeq(Ext) = <<"errors">> \o KeySeq(Delete(call.bag, "errors"))

\* C18, amended: the same, for a bag none of whose keys is an array index;
\* the array-index keys of a bag come before "errors", and "errors" and the
\* other keys follow as stated.
C18_ErrorsFirstAfterIndexKeys ==
    (pc = "returned" /\ IsFieldErrorsCall) =>
        LET indexed == {i \in 1..Len(call.bag) : call.bag[i].k \in IndexKeys}
            n == Cardinality(indexed)
        IN  /\ n = 0 =>
                  KeySeq(Ext) =
                      <<"errors">> \o KeySeq(Delete(call.bag, "errors"))
            /\ KeySeq(Ext) =
                  KeySeq(SubSeq(call.bag, 1, n)) \o <<"errors">>
                      \o KeySeq(Delete(SubSeq(call.bag, n + 1, Len(call.bag)),
                                       "errors"))

C18_Witness ==
    /\ pc = "returned"
    /\ call.ctor = "badRequest"
    /\ call.bag = << [k |-> "x", v |-> Ref(NId)], [k |-> "errors", v |-> Prim(1)] >>
    /\ Ext = << [k |-> "errors", v |-> Prim(1)], [k |-> "x", v |-> Ref(NId)] >>

\* C19: a field-errors constructor called with an empty errors map and no
\* extension bag returns a record whose extensions is present and has the one
\* key "errors", whose value is the caller's empty map: extensions is neither
\* absent nor an empty mapping.
C19_EmptyErrorsStillPresent ==
    (/\ pc = "returned"
     /\ IsFieldErrorsCall
     /\ call.errors = EmptyObject
     /\ ~ExtensionsGiven) =>
        /\ ExtPresent
        /\ Ext # EmptyObject
        /\ Keys(Ext) = {"errors"}
        /\ Get(Ext, "errors") = Ref(EId)
        /\ heap[EId] = EmptyObject

C19_Witness ==
    /\ pc = "returned"
    /\ call.ctor = "unprocessableContent"
    /\ call.errors = EmptyObject
    /\ call.maybeExtensions = none
    /\ Ext = << [k |-> "errors", v |-> Ref(EId)] >>
    /\ heap[EId] = EmptyObject

\* the constructors whose status is 400, 412, 422 or 500
MergingConstructors ==
    {c \in Constructors : statusCodes[c] \in {400, 412, 422, 500}}

\* C20: the field-errors merge is applied by exactly badRequest (400),
\* internalServerError (500), preconditionFailed (412) and
\* unprocessableContent (422): their record always has the key "errors" in
\* its extensions, and for each of the other 15 constructors the extensions
\* has the key "errors" exactly when the caller's present bag has it, and then
\* with the caller's value.
C20_OnlyFourMerge ==
    /\ MergingConstructors = {"badRequest", "internalServerError",
                              "preconditionFailed", "unprocessableContent"}
    /\ Cardinality(Constructors \ MergingConstructors) = 15
    /\ (pc = "returned" /\ call.ctor \in MergingConstructors) =>
          /\ Has(Ext, "errors")
          /\ ~(ExtensionsGiven /\ Has(call.bag, "errors")) =>
                Get(Ext, "errors") = Ref(EId)
    /\ (pc = "returned" /\ call.ctor \notin MergingConstructors) =>
          /\ Has(Ext, "errors") <=>
                (ExtensionsGiven /\ Has(call.bag, "errors"))
          /\ Has(Ext, "errors") =>
                Get(Ext, "errors") = Get(call.bag, "errors")

C20_Witness ==
    /\ pc = "returned"
    /\ call.ctor = "gone"
    /\ call.bag = << [k |-> "errors", v |-> Ref(NId)], [k |-> "x", v |-> Prim(1)] >>
    /\ Ext = call.bag

(***************************************************************************)
(* A caller that keeps records.  The caller keeps the record of a first    *)
(* call in `kept`, makes a later call on the same objects (`problem` is    *)
(* its record) and then writes into what it holds: a key of the extensions *)
(* of one of the two records, or a key of the nested object.  Before each  *)
(* of the two calls it may make another call, whose record it drops.       *)
(***************************************************************************)
\* the constructors of the first call: two that merge a field-errors map
\* and one that does not
KeptConstructors == {"badRequest", "conflict", "unprocessableContent"}

\* the strings of the first call, and those of the later calls
KeptText == CHOOSE s \in Texts : s.type # ""
LaterTexts == {s \in Texts : s.instance # ""}

\* the value the caller writes into a record, and into the nested object
RecordValue == Prim(2)
NestedValue == Prim(8)

\* the arguments of a call made on heap h
Arguments(c, s, m, h) ==
    [ctor |-> c, instance |-> s.instance, type |-> s.type,
     detail |-> s.detail, maybeExtensions |-> m,
     errors |-> h[EId],
     bag |-> IF m.tag = "some" THEN h[m.value.v] ELSE EmptyObject]

\* as Release, for a caller that holds the first n objects of the heap
ReleaseKeeping(out, n) ==
    IF out.r.extensions.t = "ref" /\ out.r.extensions.v > n
    THEN [h |-> Append(SubSeq(out.h, 1, n), out.h[out.r.extensions.v]),
          r |-> [out.r EXCEPT !.extensions = Ref(n + 1)]]
    ELSE [h |-> SubSeq(out.h, 1, n), r |-> out.r]

\* the objects the caller holds beside the latest record: its own and the
\* extensions of the kept record
KeptLen ==
    IF kept.problem.extensions.t = "ref" /\ kept.problem.extensions.v > NRoots
    THEN NRoots + 1 ELSE NRoots

InitKept == Init

\* a call before the first call or between the two; its record is the latest
\* one until the next call replaces it
CallOther ==
    /\ pc \in {"idle", "kept"}
    /\ \E c \in KeptConstructors, m \in MaybeArgs :
        LET out == ReleaseKeeping(Construct(c, heap, KeptText, m), KeptLen)
        IN  /\ heap' = out.h
            /\ problem' = out.r
            /\ call' = Arguments(c, KeptText, m, heap)
    /\ pc' = IF pc = "idle" THEN "before" ELSE "between"
    /\ UNCHANGED <<mutations, wire, parsed, tasks, kept>>

\* the first call; the caller keeps its record.  The extensions of the
\* record of a call before it is still on the heap while the call runs.
KeepFirst ==
    /\ pc \in {"idle", "before"}
    /\ \E c \in KeptConstructors, m \in MaybeArgs :
        LET out == Release(Construct(c, heap, KeptText, m))
        IN  /\ heap' = out.h
            /\ kept' = [problem |-> out.r,
                        call |-> Arguments(c, KeptText, m, heap),
                        ext |-> IF out.r.extensions.t = "ref"
                                THEN out.h[out.r.extensions.v]
                                ELSE EmptyObject]
    /\ problem' = NoProblem
    /\ call' = NoCall
    /\ pc' = "kept"
    /\ UNCHANGED <<mutations, wire, parsed, tasks>>

\* the later call.  The extensions of the record of a call between the two
\* is still on the heap while the call runs.
CallLater ==
    /\ pc \in {"kept", "between"}
    /\ \E c \in Constructors, s \in LaterTexts, m \in MaybeArgs :
        LET out == ReleaseKeeping(Construct(c, heap, s, m), KeptLen)
        IN  /\ heap' = out.h
            /\ problem' = out.r
            /\ call' = Arguments(c, s, m, heap)
    /\ pc' = "both"
    /\ UNCHANGED <<mutations, wire, parsed, tasks, kept>>

\* the caller adds or replaces a top-level key in the extensions of one of
\* the two records
RecordSet ==
    /\ pc = "both"
    /\ \E r \in {kept.problem.extensions, problem.extensions}, k \in BagKeys :
        /\ r.t = "ref"
        /\ heap' = [heap EXCEPT ![r.v] = Put(@, k, RecordValue)]
    /\ pc' = "changed"
    /\ mutations' = 1
    /\ UNCHANGED <<problem, call, wire, parsed, tasks, kept>>

\* the caller changes the inside of the nested object
NestedSet ==
    /\ pc = "both"
    /\ heap' = [heap EXCEPT ![NId] = Put(@, "hello", NestedValue)]
    /\ pc' = "nested"
    /\ mutations' = 1
    /\ UNCHANGED <<problem, call, wire, parsed, tasks, kept>>

NextKept == CallOther \/ KeepFirst \/ CallLater \/ RecordSet \/ NestedSet

SpecKept == InitKept /\ [][NextKept]_vars

\* the mapping the kept record's extensions refers to
KeptExt ==
    IF kept.problem.extensions.t = "ref" THEN heap[kept.problem.extensions.v]
    ELSE EmptyObject

\* both records were built from the caller's bag
BothFromBag ==
    /\ pc \in {"both", "changed", "nested"}
    /\ kept.call.maybeExtensions = some(Ref(BId))
    /\ call.maybeExtensions = some(Ref(BId))

\* C21: two records built from the same present bag, by the same or by
\* different constructors, have extensions mappings of their own (distinct
\* from each other and from the bag), and writing a top-level key into the
\* extensions of one record changes neither the extensions of the other nor
\* the caller's bag.
C21_IndependentlyOwned ==
    [][BothFromBag =>
          /\ kept.problem.extensions.t = "ref"
          /\ problem.extensions.t = "ref"
          /\ Cardinality({kept.problem.extensions, problem.extensions,
                          Ref(BId)}) = 3
          /\ pc' = "changed" =>
                /\ heap'[BId] = heap[BId]
                /\ \/ heap'[problem.extensions.v] = heap[problem.extensions.v]
                   \/ heap'[kept.problem.extensions.v] =
                          heap[kept.problem.extensions.v]]_vars

C21_Witness ==
    /\ BothFromBag
    /\ pc = "changed"
    /\ kept.call.ctor = "conflict" /\ call.ctor = "notFound"
    /\ heap[BId] = << [k |-> "x", v |-> Prim(1)] >>
    /\ KeptExt = << [k |-> "x", v |-> RecordValue] >>
    /\ Ext = << [k |-> "x", v |-> Prim(1)] >>

\* C22: the table of statuses and titles is one-to-one: the 19 constructors
\* return 19 different statuses, and no constructor other than the one that
\* built a record returns the record's status or the record's title.
C22_OneToOne ==
    /\ Cardinality(Constructors) = 19
    /\ Cardinality({statusCodes[c] : c \in Constructors}) = 19
    /\ pc = "returned" =>
          \A c \in Constructors \ {call.ctor} :
              LET other == Construct(c, heap, KeptText, none).r
              IN  /\ other.status # problem.status
                  /\ other.title # problem.title

C22_Witness ==
    /\ pc = "returned"
    /\ call.ctor = "forbidden"
    /\ problem.status = 403
    /\ problem.title = "Forbidden"
    /\ Construct("unauthorized", heap, KeptText, none).r.title = "Unauthorized"

\* C23: badRequest, internalServerError, preconditionFailed and
\* unprocessableContent differ only in status and title: each of the other
\* three, called with the arguments of the call that returned the record,
\* returns the same type, instance and detail and an extensions of the same
\* keys and values in the same order, under another status and title.
C23_FieldErrorsAlike ==
    (pc = "returned" /\ call.ctor \in MergingConstructors) =>
        \A c \in MergingConstructors \ {call.ctor} :
            LET out == Construct(c, SubSeq(heap, 1, NRoots),
                                 [instance |-> call.instance,
                                  type |-> call.type,
                                  detail |-> call.detail],
                                 call.maybeExtensions)
            IN  /\ out.r.type = problem.type
                /\ out.r.instance = problem.instance
                /\ out.r.detail = problem.detail
                /\ out.r.extensions.t = "ref"
                /\ out.h[out.r.extensions.v] = Ext
                /\ out.r.status # problem.status
                /\ out.r.title # problem.title

C23_Witness ==
    /\ pc = "returned"
    /\ call.ctor = "internalServerError"
    /\ call.detail = "Widget not found"
    /\ call.bag = << [k |-> "0", v |-> Prim(1)], [k |-> "errors", v |-> Ref(NId)] >>
    /\ Ext = call.bag
    /\ Construct("badRequest", SubSeq(heap, 1, NRoots),
                 [instance |-> call.instance, type |-> call.type,
                  detail |-> call.detail], call.maybeExtensions).r.status = 400

\* C24: the copy is one level deep.  A mapping stored under a key of the
\* caller's bag is the same object under that key of the extensions of each
\* record built from the bag, so after the caller changed the inside of it
\* the record shows the changed content, as the bag does.
C24_NestedShared ==
    pc = "nested" =>
        /\ heap[NId] # Nested
        /\ \A k \in Keys(heap[BId]) :
              Get(heap[BId], k).t = "ref" =>
                  /\ ExtensionsGiven =>
                        /\ Get(Ext, k) = Get(heap[BId], k)
                        /\ heap[Get(Ext, k).v] = Put(Nested, "hello", NestedValue)
                  /\ kept.call.maybeExtensions.tag = "some" =>
                        /\ Get(KeptExt, k) = Get(heap[BId], k)
                        /\ heap[Get(KeptExt, k).v] =
                               Put(Nested, "hello", NestedValue)

C24_Witness ==
    /\ pc = "nested"
    /\ kept.call.ctor = "badRequest" /\ call.ctor = "gone"
    /\ kept.call.maybeExtensions = some(Ref(BId))
    /\ call.maybeExtensions = some(Ref(BId))
    /\ heap[BId] = << [k |-> "x", v |-> Ref(NId)] >>
    /\ Ext = << [k |-> "x", v |-> Ref(NId)] >>
    /\ KeptExt = << [k |-> "errors", v |-> Ref(EId)], [k |-> "x", v |-> Ref(NId)] >>
    /\ heap[NId] = << [k |-> "hello", v |-> NestedValue] >>

\* the two calls have the same constructor and structurally equal arguments
EqualCalls ==
    /\ pc = "both"
    /\ call.ctor = kept.call.ctor
    /\ call.instance = kept.call.instance
    /\ call.type = kept.call.type
    /\ call.detail = kept.call.detail
    /\ call.maybeExtensions.tag = kept.call.maybeExtensions.tag
    /\ call.bag = kept.call.bag
    /\ call.errors = kept.call.errors

\* C25: a call of the constructor of the kept record with structurally equal
\* arguments returns a record structurally equal to the kept record as it was
\* returned, whatever calls were made before the first call or between the
\* two.
C25_Deterministic ==
    EqualCalls =>
        /\ problem.status = kept.problem.status
        /\ problem.title = kept.problem.title
        /\ problem.type = kept.problem.type
        /\ problem.instance = kept.problem.instance
        /\ problem.detail = kept.problem.detail
        /\ problem.extensions.t = kept.problem.extensions.t
        /\ Ext = kept.ext
        /\ DeepEqual(heap, problem.extensions, heap, kept.problem.extensions)

C25_Witness ==
    /\ EqualCalls
    /\ call.ctor = "conflict"
    /\ call.maybeExtensions = some(Ref(BId))
    /\ call.bag = << [k |-> "x", v |-> Ref(NId)] >>
    /\ Ext = call.bag
    /\ problem.extensions # kept.problem.extensions

\* C26: on a present mapping getExtensionsOrEmpty and resolveExtensions both
\* return a new mapping with the keys and values of the input, in its order;
\* on an absent one getExtensionsOrEmpty returns a new empty mapping and
\* resolveExtensions returns undefined.  So the copy buildProblem makes of
\* the merged mapping of a field-errors constructor has the content of the
\* merged mapping.
C26_HelpersAgree ==
    /\ \A x \in 1..Len(heap) :
          LET g == getExtensionsOrEmpty(heap, some(Ref(x)))
              r == resolveExtensions(heap, some(Ref(x)))
          IN  /\ g.r.t = "ref" /\ g.r.v \notin 1..Len(heap)
              /\ r.r.t = "ref" /\ r.r.v \notin 1..Len(heap)
              /\ g.h[g.r.v] = heap[x]
              /\ r.h[r.r.v] = heap[x]
              /\ SubSeq(g.h, 1, Len(heap)) = heap
              /\ SubSeq(r.h, 1, Len(heap)) = heap
    /\ LET g == getExtensionsOrEmpty(heap, none)
           r == resolveExtensions(heap, none)
       IN  /\ g.r.t = "ref" /\ g.r.v \notin 1..Len(heap)
           /\ g.h[g.r.v] = EmptyObject
           /\ r.r = Undefined
           /\ r.h = heap
    /\ (pc = "returned" /\ IsFieldErrorsCall) =>
          LET e == extensionsWithErrors(SubSeq(heap, 1, NRoots), Ref(EId),
                                        call.maybeExtensions)
          IN  /\ Ext = e.h[e.r.v]
              /\ problem.extensions # e.r

C26_Witness ==
    /\ pc = "returned"
    /\ call.ctor = "preconditionFailed"
    /\ call.bag = << [k |-> "errors", v |-> Prim(1)], [k |-> "x", v |-> Ref(NId)] >>
    /\ Ext = call.bag
    /\ getExtensionsOrEmpty(heap, some(Ref(BId))).h[Len(heap) + 1] = call.bag
    /\ resolveExtensions(heap, some(Ref(BId))).h[Len(heap) + 1] = call.bag

====
